---------------------------- MODULE Spec2Model ----------------------------
(***************************************************************************)
(* The cluster key manager of src/backend/crypto/kmgr.c and                *)
(* src/common/kmgr_utils.c: the wrapped internal keys in pg_cryptokeys     *)
(* (KMGR_DIR) and pg_cryptokeys_tmp (KMGR_TMP_DIR), the plaintext keys in  *)
(* the shared memory struct KmgrShmem, the postmaster running              *)
(* BootStrapKmgr / KmgrShmemInit / InitializeKmgr, and backends running    *)
(* pg_rotate_cluster_passphrase and KmgrGetKey.                            *)
(*                                                                         *)
(* The functions are modelled as the tree has them.  Five bodies are left  *)
(* empty between the "Your Code Starts Here" markers: kmgr_derive_keys     *)
(* writes neither output buffer, generate_crypto_key returns NULL,         *)
(* KmgrSaveCryptoKeys writes no file, KmgrGetKey returns NULL and          *)
(* pg_rotate_cluster_passphrase does nothing after the recovery call.      *)
(* A value read before it was written (the derived keys) is any value;     *)
(* the use of a NULL pointer is any of the outcomes it can have.           *)
(*                                                                         *)
(* The AEAD primitives (pg_create_aead_ctx, pg_aead_encrypt,               *)
(* pg_aead_decrypt), rmtree, the macro StrNCpy and the kmgr headers are    *)
(* not among the sources; they are modelled from their contracts.          *)
(*                                                                         *)
(* Spec is the key manager on a data directory; SpecCmd is the building    *)
(* of the passphrase command line from its template, taken alone.          *)
(***************************************************************************)
EXTENDS Integers, Sequences, FiniteSets, TLC

(***************************************************************************)
(* Sizes.  The headers that set them are not among the sources; the model  *)
(* fixes small values.                                                     *)
(***************************************************************************)
\* Number of internal keys (the length of KmgrShmemData.intlKeys).
KMGR_MAX_INTERNAL_KEYS == 2

\* Least passphrase length BootStrapKmgr accepts.
KMGR_MIN_PASSPHRASE_LEN == 2

\* internalKeyLengths[KMGR_SQL_KEY_ID].
PG_AEAD_KEY_LEN == 32

\* Bytes pg_aead_encrypt adds to a key (IV and tag).
AeadOverhead == 16

KeyIds == 0 .. (KMGR_MAX_INTERNAL_KEYS - 1)

\* static int internalKeyLengths[KMGR_MAX_INTERNAL_KEYS] = { PG_AEAD_KEY_LEN }:
\* the elements without an initializer are 0.
internalKeyLengths(id) == IF id = 0 THEN PG_AEAD_KEY_LEN ELSE 0

(***************************************************************************)
(* CryptoKey values.  One record shape serves the zeroed key (palloc0,     *)
(* memset), a plaintext key and a wrapped key.                             *)
(*   kek : the key encryption key a wrapped key was encrypted under        *)
(*   dek : the key bytes (an identifier of them)                           *)
(***************************************************************************)
ZeroKey == [klen |-> 0, kind |-> "zero", kek |-> "-", dek |-> 0]

PlainKey(len, d) == [klen |-> len, kind |-> "plain", kek |-> "-", dek |-> d]

\* The key encryption keys (the pair kekenc, kekhmac).
KEKs == {"kekA", "kekB"}

\* The internal key id of the cluster, as a complete BootStrapKmgr generated
\* it when the data directory was made: internalKeyLengths[id] bytes dek.
ClusterKey(id) == PlainKey(internalKeyLengths(id), id + 1)

(***************************************************************************)
(* pg_create_aead_ctx / pg_aead_encrypt / pg_aead_decrypt (common/aead.c). *)
(* A context is the key pair it was created from.  Decryption checks the   *)
(* tag first and fails, writing nothing, unless the key is the one the     *)
(* input was encrypted under.                                              *)
(***************************************************************************)
pg_aead_encrypt(ctx, in) ==
    [klen |-> in.klen + AeadOverhead, kind |-> "wrapped", kek |-> ctx, dek |-> in.dek]

pg_aead_decrypt_ok(ctx, in) == in.kind = "wrapped" /\ in.kek = ctx

pg_aead_decrypt(ctx, in) == PlainKey(in.klen - AeadOverhead, in.dek)

\* kmgr_wrap_key: true, and the wrapped key, when pg_aead_encrypt succeeds.
kmgr_wrap_key(ctx, in) == pg_aead_encrypt(ctx, in)

\* kmgr_unwrap_key: whether pg_aead_decrypt succeeds.
kmgr_unwrap_key_ok(ctx, in) == pg_aead_decrypt_ok(ctx, in)

kmgr_unwrap_key(ctx, in) == pg_aead_decrypt(ctx, in)

(***************************************************************************)
(* File names.  CryptoKeyFilePath names the file of key id by four upper   *)
(* case hexadecimal digits; a name is a sequence of characters.            *)
(***************************************************************************)
HexChars == <<"0", "1", "2", "3", "4", "5", "6", "7",
              "8", "9", "A", "B", "C", "D", "E", "F">>

HexValue(c) == (CHOOSE i \in 1 .. 16 : HexChars[i] = c) - 1

IsUpperHex(c) == \E i \in 1 .. 16 : HexChars[i] = c

CryptoKeyFilePath(id) ==
    << HexChars[((id \div 4096) % 16) + 1], HexChars[((id \div 256) % 16) + 1],
       HexChars[((id \div 16) % 16) + 1], HexChars[(id % 16) + 1] >>

\* strspn(name, "0123456789ABCDEF"): the length of the longest prefix of
\* upper case hexadecimal digits.
RECURSIVE strspn_hex(_)
strspn_hex(name) ==
    IF name = <<>> \/ ~IsUpperHex(Head(name)) THEN 0
    ELSE 1 + strspn_hex(Tail(name))

\* strtoul(name, NULL, 16) of a name of hexadecimal digits.
RECURSIVE strtoul16(_, _)
strtoul16(name, acc) ==
    IF name = <<>> \/ ~IsUpperHex(Head(name)) THEN acc
    ELSE strtoul16(Tail(name), acc * 16 + HexValue(Head(name)))

\* The test of kmgr_get_cryptokeys without the strspn part.
IsKeyFileName_AnyFourChars(name) == Len(name) = 4

\* The test of kmgr_get_cryptokeys that makes a directory entry a key file.
IsKeyFileName(name) == Len(name) = 4 /\ strspn_hex(name) = 4

(***************************************************************************)
(* Directories and files.  A file is short (fewer than sizeof(CryptoKey)   *)
(* bytes, as one created and not yet written) or holds one CryptoKey.      *)
(***************************************************************************)
ShortFile == [bytes |-> "short", key |-> ZeroKey]

FullFile(k) == [bytes |-> "full", key |-> k]

NoDir == [exists |-> FALSE, files |-> <<>>]

MkDir(f) == [exists |-> TRUE, files |-> f]

EntryNames(dir) == DOMAIN dir.files

\* The directory without the entry name (unlink).
Unlink(dir, name) ==
    MkDir([n \in (EntryNames(dir) \ {name}) |-> dir.files[n]])


(***************************************************************************)
(* read_one_keyfile and kmgr_get_cryptokeys (backend build).  An ERROR is  *)
(* a result whose err is the message; err = "" is a normal return.         *)
(***************************************************************************)
NoErr == ""

\* read_one_keyfile without the test of the number of bytes read.
read_one_keyfile_err_NoShortTest(dir, id) ==
    IF CryptoKeyFilePath(id) \notin EntryNames(dir)
    THEN "could not open file for reading"
    ELSE NoErr

\* read_one_keyfile(dir, id, &keys[id]): the message of the ERROR it raises,
\* NoErr when it read sizeof(CryptoKey) bytes.
read_one_keyfile_err(dir, id) ==
    IF CryptoKeyFilePath(id) \notin EntryNames(dir)
    THEN "could not open file for reading"
    ELSE IF dir.files[CryptoKeyFilePath(id)].bytes # "full"
         THEN "could not read file: short read"
         ELSE NoErr

read_one_keyfile(dir, id) == dir.files[CryptoKeyFilePath(id)].key

\* palloc0(sizeof(CryptoKey) * KMGR_MAX_INTERNAL_KEYS)
ZeroKeys == [id \in KeyIds |-> ZeroKey]

\* The while loop of kmgr_get_cryptokeys over the entries ReadDir returns, in
\* the order ents.
RECURSIVE get_cryptokeys_loop(_, _, _, _)
get_cryptokeys_loop(dir, ents, keys, nkeys) ==
    IF ents = <<>> THEN [err |-> NoErr, keys |-> keys, nkeys |-> nkeys]
    ELSE LET name == Head(ents)
             id   == strtoul16(name, 0)
         IN  IF ~IsKeyFileName(name)
             THEN get_cryptokeys_loop(dir, Tail(ents), keys, nkeys)
             ELSE IF id >= KMGR_MAX_INTERNAL_KEYS
             THEN [err |-> "invalid cryptographic key identifier",
                   keys |-> keys, nkeys |-> nkeys]
             ELSE IF nkeys >= KMGR_MAX_INTERNAL_KEYS
             THEN [err |-> "too many cryptographic kes",
                   keys |-> keys, nkeys |-> nkeys]
             ELSE IF read_one_keyfile_err(dir, id) # NoErr
             THEN [err |-> read_one_keyfile_err(dir, id),
                   keys |-> keys, nkeys |-> nkeys]
             ELSE get_cryptokeys_loop(dir, Tail(ents),
                      [keys EXCEPT ![id] = read_one_keyfile(dir, id)], nkeys + 1)

\* kmgr_get_cryptokeys without the ERROR for a directory that cannot be opened.
kmgr_get_cryptokeys_NoOpenError(dir, ents) ==
    get_cryptokeys_loop(dir, IF dir.exists THEN ents ELSE <<>>, ZeroKeys, 0)

\* kmgr_get_cryptokeys(path, &nkeys), the directory at path being dir and
\* ReadDir returning its entries in the order ents.
kmgr_get_cryptokeys(dir, ents) ==
    IF ~dir.exists
    THEN [err |-> "could not open directory", keys |-> ZeroKeys, nkeys |-> 0]
    ELSE get_cryptokeys_loop(dir, ents, ZeroKeys, 0)

\* The orders in which ReadDir can return the entries of dir.
RECURSIVE OrdersOf(_)
OrdersOf(S) ==
    IF S = {} THEN {<<>>}
    ELSE UNION {{<<n>> \o rest : rest \in OrdersOf(S \ {n})} : n \in S}

ReadDirOrders(dir) == OrdersOf(EntryNames(dir))


(***************************************************************************)
(* The data directory the server is started on.  pg_cryptokeys and         *)
(* pg_cryptokeys_tmp are persistent: the server finds them as cluster      *)
(* creation and earlier rotations, interrupted or not, left them.  The     *)
(* steps are those the comments of KmgrSaveCryptoKeys (for each id in      *)
(* order: open the file, write the key, close it) and of                   *)
(* pg_rotate_cluster_passphrase (save the new keys to the temporary        *)
(* directory, remove the original directory, rename) describe.             *)
(***************************************************************************)
KeyFileNames(ids) == {CryptoKeyFilePath(id) : id \in ids}

\* A directory whose files of ids hold the cluster keys wrapped under kek;
\* the file of an id in short is created and not yet written.
SavedDir(kek, ids, short) ==
    MkDir([n \in KeyFileNames(ids \cup short) |->
             IF strtoul16(n, 0) \in short THEN ShortFile
             ELSE FullFile(kmgr_wrap_key(kek, ClusterKey(strtoul16(n, 0))))])

FullDir(kek) == SavedDir(kek, KeyIds, {})

\* The same with one byte of the file of id flipped.
DamagedDir(kek, id) ==
    MkDir([FullDir(kek).files EXCEPT ![CryptoKeyFilePath(id)] =
             FullFile([kmgr_wrap_key(kek, ClusterKey(id)) EXCEPT !.kek = "damaged"])])

\* What a save of the keys interrupted at any point has written: the files of
\* the ids below j, and possibly the file of j created and still empty.
PartlySavedDirs(kek) ==
    {SavedDir(kek, 0 .. (j - 1), {}) : j \in 0 .. KMGR_MAX_INTERNAL_KEYS}
    \cup {SavedDir(kek, 0 .. (j - 1), {j}) : j \in KeyIds}

\* What a removal of FullDir(kek) interrupted at any point has left.
PartlyRemovedDirs(kek) ==
    {SavedDir(kek, ids, {}) : ids \in SUBSET KeyIds} \cup {NoDir}

\* <<pg_cryptokeys, pg_cryptokeys_tmp>> of a cluster no rotation is in flight on.
InstalledStates ==
    {<<FullDir(k), NoDir>> : k \in KEKs}
    \cup {<<DamagedDir(k, id), NoDir>> : k \in KEKs, id \in KeyIds}

\* Names of directory entries that are not key files: the entries . and ..,
\* a stray file, a name with a lower case digit, names of 3 and 5 digits.
ForeignNames ==
    { <<".">>, <<".", ".">>, <<"x", "y", "z">>, <<"0", "0", "0", "a">>,
      <<"0", "0", "0">>, <<"0", "0", "0", "0", "0">> }

\* The directory dir with one more entry.
WithEntry(dir, name, file) ==
    MkDir([n \in EntryNames(dir) \cup {name} |->
             IF n = name THEN file ELSE dir.files[n]])

\* An installed cluster with one foreign entry in pg_cryptokeys (its content
\* is not sizeof(CryptoKey) bytes).
ForeignEntryStates ==
    {<<WithEntry(FullDir(k), n, ShortFile), NoDir>> : k \in KEKs, n \in ForeignNames}

\* An installed cluster whose pg_cryptokeys was tampered with: a key file
\* named by an identifier past the last one was added, or a key file was
\* cut short.
TamperedStates ==
    {<<WithEntry(FullDir(k), CryptoKeyFilePath(KMGR_MAX_INTERNAL_KEYS),
                 FullFile(kmgr_wrap_key(k, ClusterKey(0)))), NoDir>> : k \in KEKs}
    \cup {<<SavedDir(k, KeyIds \ {id}, {id}), NoDir>> : k \in KEKs, id \in KeyIds}

\* <<pg_cryptokeys, pg_cryptokeys_tmp>> after a rotation from old to new that
\* was interrupted between two of its file system steps.
RotationCrashStates ==
    UNION {   {<<FullDir(old), t>> : t \in PartlySavedDirs(new)}
         \cup {<<d, FullDir(new)>> : d \in PartlyRemovedDirs(old)}
         : old \in KEKs, new \in KEKs}

(***************************************************************************)
(* Passphrases: what cluster_passphrase_command prints.                    *)
(***************************************************************************)
Passphrases ==
    { [id |-> "short", len |-> KMGR_MIN_PASSPHRASE_LEN - 1],
      [id |-> "P",     len |-> KMGR_MIN_PASSPHRASE_LEN],
      [id |-> "Q",     len |-> KMGR_MIN_PASSPHRASE_LEN + 1] }

NoPassphrase == [id |-> "-", len |-> 0]

\* kmgr_derive_keys(passphrase, passlen, enckey, mackey) writes neither
\* enckey nor mackey: the caller's uninitialized buffers keep whatever they
\* held.  The set of key pairs the caller can find in them.
kmgr_derive_keys(passphrase, passlen) == KEKs


(***************************************************************************)
(* kmgr_verify_passphrase.  ctx is the context made of the derived keys.   *)
(* Every key that unwraps is written to keys_out[i] at once; at the first  *)
(* that does not, the function returns false and keys_out keeps what was   *)
(* written so far.                                                         *)
(***************************************************************************)
RECURSIVE verify_loop(_, _, _, _, _)
verify_loop(ctx, keys_in, keys_out, i, nkeys) ==
    IF i >= nkeys THEN [ok |-> TRUE, keys_out |-> keys_out]
    ELSE IF ~kmgr_unwrap_key_ok(ctx, keys_in[i])
         THEN [ok |-> FALSE, keys_out |-> keys_out]
         ELSE verify_loop(ctx, keys_in,
                  [keys_out EXCEPT ![i] = kmgr_unwrap_key(ctx, keys_in[i])],
                  i + 1, nkeys)

kmgr_verify_passphrase(ctx, keys_in, keys_out, nkeys) ==
    verify_loop(ctx, keys_in, keys_out, 0, nkeys)

(***************************************************************************)
(* kmgr_run_cluster_passphrase_command: the command line built from the    *)
(* template cluster_passphrase_command in the local buffer                 *)
(* command[MAXPGPATH].  A string is a sequence of characters, "NUL" the    *)
(* terminating byte, "?" a byte of the buffer never written.  The buffer   *)
(* is a function of the byte offsets; a write at an offset past the end    *)
(* of the buffer (the stack next to it) adds that offset to its domain.    *)
(***************************************************************************)
\* #define KMGR_PROMPT_MSG "Enter database encryption pass phrase:"
KMGR_PROMPT_MSG ==
    << "E", "n", "t", "e", "r", " ", "d", "a", "t", "a", "b", "a",
       "s", "e", " ", "e", "n", "c", "r", "y", "p", "t", "i", "o",
       "n", " ", "p", "a", "s", "s", " ", "p", "h", "r", "a", "s",
       "e", ":" >>

\* The size of the buffer command.
MAXPGPATH == 40

\* The templates: every string of at most MaxTemplateLen of these characters.
MaxTemplateLen == 4

TemplateChars == {"%", "p", "x"}

Templates == UNION {[1 .. n -> TemplateChars] : n \in 0 .. MaxTemplateLen}

\* p[i] of a string: its character at offset i, the terminator at its end.
CharAt(str, i) == IF i < Len(str) THEN str[i + 1] ELSE "NUL"

\* mem after *(mem + i) = ch.
Poke(mem, i, ch) ==
    [j \in DOMAIN mem \cup {i} |-> IF j = i THEN ch ELSE mem[j]]

\* strncpy(mem + at, src, n): n bytes are written, those past the end of src
\* as NUL.
strncpy(mem, at, src, n) ==
    [j \in DOMAIN mem \cup (at .. (at + n - 1)) |->
        IF j \in at .. (at + n - 1) THEN CharAt(src, j - at) ELSE mem[j]]

\* The macro StrNCpy(dst, src, len) of c.h:
\*   if (len > 0) { strncpy(dst, src, len); dst[len - 1] = '\0'; }
StrNCpy(mem, at, src, len) ==
    IF len > 0 THEN Poke(strncpy(mem, at, src, len), at + len - 1, "NUL")
    ELSE mem

\* endp = command + MAXPGPATH - 1
endp == MAXPGPATH - 1

\* No command is being built.
NoCmd == [template |-> <<>>, p |-> 0, command |-> <<>>, dp |-> 0, done |-> FALSE]

\* dp = command; endp = command + MAXPGPATH - 1; *endp = '\0'; p = template
CommandStart(template) ==
    [template |-> template, p |-> 0,
     command |-> [j \in 0 .. (MAXPGPATH - 1) |-> IF j = endp THEN "NUL" ELSE "?"],
     dp |-> 0, done |-> FALSE]

\* One pass of the for loop, the p++ at its end included.
CommandLoopBody(c) ==
    LET put(ch) == IF c.dp < endp
                   THEN [c EXCEPT !.command = Poke(@, c.dp, ch), !.dp = @ + 1]
                   ELSE c
    IN  IF CharAt(c.template, c.p) = "%"
        THEN IF CharAt(c.template, c.p + 1) = "p"
             THEN [c EXCEPT !.command = StrNCpy(@, c.dp, KMGR_PROMPT_MSG,
                                                Len(KMGR_PROMPT_MSG)),
                            !.dp = @ + Len(KMGR_PROMPT_MSG),
                            !.p = @ + 2]
             ELSE IF CharAt(c.template, c.p + 1) = "%"
             THEN [put(CharAt(c.template, c.p + 1)) EXCEPT !.p = c.p + 2]
             ELSE [put(CharAt(c.template, c.p)) EXCEPT !.p = c.p + 1]
        ELSE [put(CharAt(c.template, c.p)) EXCEPT !.p = c.p + 1]

\* The string OpenPipeStream(command, "r") is handed: the bytes from offset i
\* up to the first NUL.
RECURSIVE CStringFrom(_, _)
CStringFrom(mem, i) ==
    IF i \notin DOMAIN mem \/ mem[i] = "NUL" THEN <<>>
    ELSE <<mem[i]>> \o CStringFrom(mem, i + 1)

(***************************************************************************)
(* rename(2) of a directory and rmtree (not among the sources).            *)
(***************************************************************************)
\* rename(from, to) succeeds when from exists and to is absent or empty.
rename_ok(from, to) == from.exists /\ (~to.exists \/ EntryNames(to) = {})

(***************************************************************************)
(* State.                                                                  *)
(***************************************************************************)
Postmaster == "postmaster"

Backends == {"b1", "b2"}

Procs == {Postmaster} \cup Backends

VARIABLES
    cmd,            \* the command line kmgr_run_cluster_passphrase_command builds
    enabled,        \* key_management_enabled
    cmdpass,        \* what cluster_passphrase_command prints when it is run
    kmgr_dir,       \* the directory KMGR_DIR
    kmgr_tmp_dir,   \* the directory KMGR_TMP_DIR
    shmem,          \* KmgrShmem: whether ShmemInitStruct finds it, and intlKeys
    pc,             \* where each process is
    err,            \* the message of the last ERROR each process raised
    nkeys_tmp,      \* recoverIncompleteRotation's nkeys_tmp, per process
    keys_wrap,      \* InitializeKmgr's keys_wrap and nkeys
    passphrase,     \* InitializeKmgr's passphrase and passlen
    boot,           \* how BootStrapKmgr ended
    start,          \* what the running InitializeKmgr found and did
    rotated,        \* the last pg_rotate_cluster_passphrase that returned true
    getres          \* the last KmgrGetKey call and what it returned

vars == <<cmd, enabled, cmdpass, kmgr_dir, kmgr_tmp_dir, shmem, pc, err, nkeys_tmp,
          keys_wrap, passphrase, boot, start, rotated, getres>>

NoShmem == [exists |-> FALSE, intlKeys |-> ZeroKeys]

NoKeysWrap == [keys |-> ZeroKeys, nkeys |-> 0]

\* gen: whether BootStrapKmgr got to its loop of generate_crypto_key and
\* kmgr_wrap_key calls; passbuf: its local buffer passphrase as it is left
\* when the function is left.
NoBoot == [done |-> FALSE, err |-> NoErr, pass |-> NoPassphrase, gen |-> FALSE,
           passbuf |-> NoPassphrase]

\* dir, tmp: whether the directories existed when InitializeKmgr was entered;
\* ranCmd: whether it ran the passphrase command; errAt: the step that raised;
\* afterRot: whether a rotation had returned true before this start;
\* dir0, tmp0: the two directories as InitializeKmgr found them;
\* recCrash: whether the server run before this one ended in a crash inside
\* a recoverIncompleteRotation that had found a temporary directory.
NoStart == [dir |-> FALSE, tmp |-> FALSE, ranCmd |-> FALSE, errAt |-> "",
            afterRot |-> FALSE, dir0 |-> NoDir, tmp0 |-> NoDir,
            recCrash |-> FALSE]

\* The positions inside recoverIncompleteRotation.
RecoverySteps ==
    {"rec_stat_tmp", "rec_stat_dir", "rec_rename_only", "rec_load_tmp",
     "rec_rmtree_dir", "rec_rename", "rec_rmtree_tmp"}

\* from: the passphrase the server was started under; pass: the one the
\* command printed when the rotation returned; cache: intlKeys at that time.
NoRotated == [done |-> FALSE, from |-> NoPassphrase, pass |-> NoPassphrase,
              cache |-> ZeroKeys]

NoGet == [called |-> FALSE, id |-> 0, ret |-> "", slot |-> 0]

Init ==
    /\ cmd = NoCmd
    /\ enabled \in BOOLEAN
    /\ cmdpass \in Passphrases
    /\ \/ /\ kmgr_dir = NoDir /\ kmgr_tmp_dir = NoDir
          /\ pc = [p \in Procs |-> IF p = Postmaster THEN "initdb" ELSE "idle"]
       \/ /\ \E st \in InstalledStates \cup RotationCrashStates
                       \cup ForeignEntryStates \cup TamperedStates :
                kmgr_dir = st[1] /\ kmgr_tmp_dir = st[2]
          /\ pc = [p \in Procs |-> IF p = Postmaster THEN "stopped" ELSE "idle"]
    /\ shmem = NoShmem
    /\ err = [p \in Procs |-> NoErr]
    /\ nkeys_tmp = [p \in Procs |-> 0]
    /\ keys_wrap = NoKeysWrap
    /\ passphrase = NoPassphrase
    /\ boot = NoBoot
    /\ start = NoStart
    /\ rotated = NoRotated
    /\ getres = NoGet


(***************************************************************************)
(* ereport(ERROR) and return.  An ERROR in the postmaster during startup   *)
(* ends the postmaster; in a backend it ends the SQL function.             *)
(***************************************************************************)
\* Process p raises msg at step.
Raise(p, msg, step) ==
    /\ err' = [err EXCEPT ![p] = msg]
    /\ pc' = [pc EXCEPT ![p] = IF p = Postmaster THEN "failed" ELSE "idle"]
    /\ start' = IF p = Postmaster THEN [start EXCEPT !.errAt = step] ELSE start

\* recoverIncompleteRotation returns to its caller: InitializeKmgr in the
\* postmaster, pg_rotate_cluster_passphrase in a backend.
RecoverReturn(p) ==
    /\ pc' = [pc EXCEPT ![p] = IF p = Postmaster THEN "init_load" ELSE "rot_body"]
    /\ UNCHANGED <<err, start>>

(***************************************************************************)
(* recoverIncompleteRotation, one action per file system call.             *)
(***************************************************************************)
\* recoverIncompleteRotation without the return for an absent temporary
\* directory.
RecoverStatTmp_NoEarlyReturn(p) ==
    /\ pc[p] = "rec_stat_tmp"
    /\ pc' = [pc EXCEPT ![p] = "rec_stat_dir"]
    /\ UNCHANGED <<cmd, enabled, cmdpass, kmgr_dir, kmgr_tmp_dir, shmem, err, nkeys_tmp,
                   keys_wrap, passphrase, boot, start, rotated, getres>>

\* if (stat(KMGR_TMP_DIR, &st_tmp) != 0) return;
RecoverStatTmp(p) ==
    /\ pc[p] = "rec_stat_tmp"
    /\ IF ~kmgr_tmp_dir.exists
       THEN RecoverReturn(p)
       ELSE /\ pc' = [pc EXCEPT ![p] = "rec_stat_dir"]
            /\ UNCHANGED <<err, start>>
    /\ UNCHANGED <<cmd, enabled, cmdpass, kmgr_dir, kmgr_tmp_dir, shmem, nkeys_tmp,
                   keys_wrap, passphrase, boot, rotated, getres>>

\* if (stat(KMGR_DIR, &st) != 0) { rename ...; return; }
RecoverStatDir(p) ==
    /\ pc[p] = "rec_stat_dir"
    /\ pc' = [pc EXCEPT ![p] = IF ~kmgr_dir.exists THEN "rec_rename_only"
                                ELSE "rec_load_tmp"]
    /\ UNCHANGED <<cmd, enabled, cmdpass, kmgr_dir, kmgr_tmp_dir, shmem, err, nkeys_tmp,
                   keys_wrap, passphrase, boot, start, rotated, getres>>

\* rename(KMGR_TMP_DIR, KMGR_DIR), in either branch, and the return after it.
RecoverRename(p) ==
    /\ pc[p] \in {"rec_rename_only", "rec_rename"}
    /\ IF rename_ok(kmgr_tmp_dir, kmgr_dir)
       THEN /\ kmgr_dir' = kmgr_tmp_dir
            /\ kmgr_tmp_dir' = NoDir
            /\ RecoverReturn(p)
       ELSE /\ Raise(p, "could not rename directory", "recover")
            /\ UNCHANGED <<kmgr_dir, kmgr_tmp_dir>>
    /\ UNCHANGED <<cmd, enabled, cmdpass, shmem, nkeys_tmp, keys_wrap, passphrase,
                   boot, rotated, getres>>

\* keys = kmgr_get_cryptokeys(KMGR_TMP_DIR, &nkeys_tmp);
\* if (nkeys_tmp == KMGR_MAX_INTERNAL_KEYS) ... else ...
RecoverLoadTmp(p) ==
    /\ pc[p] = "rec_load_tmp"
    /\ \E ents \in ReadDirOrders(kmgr_tmp_dir) :
         LET r == kmgr_get_cryptokeys(kmgr_tmp_dir, ents)
         IN  IF r.err # NoErr
             THEN /\ Raise(p, r.err, "recover")
                  /\ UNCHANGED nkeys_tmp
             ELSE /\ nkeys_tmp' = [nkeys_tmp EXCEPT ![p] = r.nkeys]
                  /\ pc' = [pc EXCEPT ![p] =
                               IF r.nkeys = KMGR_MAX_INTERNAL_KEYS
                               THEN "rec_rmtree_dir" ELSE "rec_rmtree_tmp"]
                  /\ UNCHANGED <<err, start>>
    /\ UNCHANGED <<cmd, enabled, cmdpass, kmgr_dir, kmgr_tmp_dir, shmem, keys_wrap,
                   passphrase, boot, rotated, getres>>

\* rmtree(KMGR_DIR, true) of case (a): one unlink, or the final rmdir, per
\* step; false (an ERROR) when the directory cannot be opened.
RecoverRmtreeDir(p) ==
    /\ pc[p] = "rec_rmtree_dir"
    /\ IF ~kmgr_dir.exists
       THEN /\ Raise(p, "could not remove directory", "recover")
            /\ UNCHANGED kmgr_dir
       ELSE IF EntryNames(kmgr_dir) # {}
       THEN /\ \E n \in EntryNames(kmgr_dir) : kmgr_dir' = Unlink(kmgr_dir, n)
            /\ UNCHANGED <<pc, err, start>>
       ELSE /\ kmgr_dir' = NoDir
            /\ pc' = [pc EXCEPT ![p] = "rec_rename"]
            /\ UNCHANGED <<err, start>>
    /\ UNCHANGED <<cmd, enabled, cmdpass, kmgr_tmp_dir, shmem, nkeys_tmp, keys_wrap,
                   passphrase, boot, rotated, getres>>

\* rmtree(KMGR_TMP_DIR, true) of case (b), and the return after it.
RecoverRmtreeTmp(p) ==
    /\ pc[p] = "rec_rmtree_tmp"
    /\ IF ~kmgr_tmp_dir.exists
       THEN /\ Raise(p, "could not remove directory", "recover")
            /\ UNCHANGED kmgr_tmp_dir
       ELSE IF EntryNames(kmgr_tmp_dir) # {}
       THEN /\ \E n \in EntryNames(kmgr_tmp_dir) :
                  kmgr_tmp_dir' = Unlink(kmgr_tmp_dir, n)
            /\ UNCHANGED <<pc, err, start>>
       ELSE /\ kmgr_tmp_dir' = NoDir
            /\ RecoverReturn(p)
    /\ UNCHANGED <<cmd, enabled, cmdpass, kmgr_dir, shmem, nkeys_tmp, keys_wrap,
                   passphrase, boot, rotated, getres>>


(***************************************************************************)
(* BootStrapKmgr, run once when the data directory is made.                *)
(***************************************************************************)
\* generate_crypto_key(len): newkey is never assigned.
generate_crypto_key(len) == "NULL"

\* KmgrSaveCryptoKeys(dir, keys): the loop builds each path and does nothing
\* with it.  The directory as the call leaves it.
KmgrSaveCryptoKeys(dir, keys) == dir

\* BootStrapKmgr without the test of passlen.
BootStrapKmgrOutcomes_NoLengthTest(pass, cmdok) ==
    IF ~cmdok THEN {"passphrase command failed"}
    ELSE {"could not initialize encryption context", "SIGSEGV",
          "failed to wrap cluster encryption key", NoErr}

\* The ways BootStrapKmgr can end when the command printed pass (cmdok: the
\* command ran and exited with 0): the message of its ERROR, NoErr for a
\* normal return.  kmgr_wrap_key is handed the NULL of generate_crypto_key
\* and reads NULL->klen: the process is killed, or the read yields
\* indeterminate bytes that are wrapped and handed to KmgrSaveCryptoKeys.
BootStrapKmgrOutcomes(pass, cmdok) ==
    IF ~cmdok THEN {"passphrase command failed"}
    ELSE IF pass.len < KMGR_MIN_PASSPHRASE_LEN
    THEN {"passphrase must be more than KMGR_MIN_PASSPHRASE_LEN bytes"}
    ELSE {"could not initialize encryption context"}
         \cup (IF generate_crypto_key(internalKeyLengths(0)) = "NULL"
               THEN {"SIGSEGV", "failed to wrap cluster encryption key", NoErr}
               ELSE {"failed to wrap cluster encryption key", NoErr})

\* Whether a BootStrapKmgr that ended with e entered the loop over the key
\* ids: every ERROR before it returns from the function.
BootStrapKmgrReachedLoop(e) ==
    e \in {"SIGSEGV", "failed to wrap cluster encryption key", NoErr}

\* The local buffer passphrase when BootStrapKmgr is left: what the command
\* printed into it (nothing when the command could not be run); no exit of
\* the function writes it again.
BootStrapKmgrPassphraseLeft(pass, cmdok) ==
    IF cmdok THEN pass ELSE NoPassphrase

BootStrapKmgr ==
    /\ pc[Postmaster] = "initdb"
    /\ \E cmdok \in BOOLEAN :
       \E e \in BootStrapKmgrOutcomes(cmdpass, cmdok) :
         /\ boot' = [done |-> TRUE, err |-> e, pass |-> cmdpass,
                      gen |-> BootStrapKmgrReachedLoop(e),
                      passbuf |-> BootStrapKmgrPassphraseLeft(cmdpass, cmdok)]
         /\ kmgr_dir' = IF e = NoErr
                        THEN KmgrSaveCryptoKeys(kmgr_dir, ZeroKeys)
                        ELSE kmgr_dir
    /\ pc' = [pc EXCEPT ![Postmaster] = "stopped"]
    /\ UNCHANGED <<cmd, enabled, cmdpass, kmgr_tmp_dir, shmem, err, nkeys_tmp,
                   keys_wrap, passphrase, start, rotated, getres>>

(***************************************************************************)
(* Server start: KmgrShmemInit, then InitializeKmgr.                       *)
(***************************************************************************)
PostmasterStart ==
    /\ pc[Postmaster] = "stopped"
    /\ pc' = [pc EXCEPT ![Postmaster] = "shmem_init"]
    /\ start' = [NoStart EXCEPT !.afterRot = rotated.done,
                                !.recCrash = start.recCrash]
    /\ UNCHANGED <<cmd, enabled, cmdpass, kmgr_dir, kmgr_tmp_dir, shmem, err,
                   nkeys_tmp, keys_wrap, passphrase, boot, rotated, getres>>

\* KmgrShmemSize: 0 when the key manager is disabled, else the size of
\* KmgrShmemData, counted in CryptoKey elements.
KmgrShmemSize(en) == IF ~en THEN 0 ELSE KMGR_MAX_INTERNAL_KEYS

\* KmgrShmemInit without the test of key_management_enabled.
KmgrShmemInitResult_NoEnabledTest(en, shm) ==
    [exists |-> TRUE,
     intlKeys |-> IF ~shm.exists THEN ZeroKeys ELSE shm.intlKeys]

\* KmgrShmemInit with the memset done whether or not the struct was found.
KmgrShmemInitResult_AlwaysZeroed(en, shm) ==
    IF ~en THEN shm ELSE [exists |-> TRUE, intlKeys |-> ZeroKeys]

\* KmgrShmemInit: nothing when the key manager is disabled; the struct is
\* zeroed only when ShmemInitStruct did not find it.
KmgrShmemInitResult(en, shm) ==
    IF ~en THEN shm
    ELSE [exists |-> TRUE,
          intlKeys |-> IF ~shm.exists THEN ZeroKeys ELSE shm.intlKeys]

\* The postmaster creates the struct; a backend attaching to the shared
\* memory (EXEC_BACKEND) calls KmgrShmemInit again.
KmgrShmemInit(p) ==
    /\ \/ p = Postmaster /\ pc[p] = "shmem_init"
       \/ p \in Backends /\ pc[p] = "idle" /\ pc[Postmaster] = "running"
    /\ shmem' = KmgrShmemInitResult(enabled, shmem)
    /\ pc' = [pc EXCEPT ![p] = IF p = Postmaster THEN "init" ELSE pc[p]]
    /\ UNCHANGED <<cmd, enabled, cmdpass, kmgr_dir, kmgr_tmp_dir, err, nkeys_tmp,
                   keys_wrap, passphrase, boot, start, rotated, getres>>

\* InitializeKmgr up to the call of recoverIncompleteRotation.
InitializeKmgrEnter ==
    /\ pc[Postmaster] = "init"
    /\ IF ~enabled
       THEN /\ pc' = [pc EXCEPT ![Postmaster] = "running"]
            /\ UNCHANGED start
       ELSE /\ pc' = [pc EXCEPT ![Postmaster] = "rec_stat_tmp"]
            /\ start' = [start EXCEPT !.dir = kmgr_dir.exists,
                                      !.tmp = kmgr_tmp_dir.exists,
                                      !.dir0 = kmgr_dir,
                                      !.tmp0 = kmgr_tmp_dir]
    /\ UNCHANGED <<cmd, enabled, cmdpass, kmgr_dir, kmgr_tmp_dir, shmem, err,
                   nkeys_tmp, keys_wrap, passphrase, boot, rotated, getres>>

\* keys_wrap = kmgr_get_cryptokeys(KMGR_DIR, &nkeys);
\* Assert(nkeys == KMGR_MAX_INTERNAL_KEYS): a build with assertions traps, a
\* build without them goes on.
InitializeKmgrLoad ==
    /\ pc[Postmaster] = "init_load"
    /\ \E ents \in ReadDirOrders(kmgr_dir) :
         LET r == kmgr_get_cryptokeys(kmgr_dir, ents)
         IN  IF r.err # NoErr
             THEN /\ Raise(Postmaster, r.err, "load")
                  /\ UNCHANGED keys_wrap
             ELSE /\ keys_wrap' = [keys |-> r.keys, nkeys |-> r.nkeys]
                  /\ \/ /\ pc' = [pc EXCEPT ![Postmaster] = "init_pass"]
                        /\ UNCHANGED <<err, start>>
                     \/ /\ r.nkeys # KMGR_MAX_INTERNAL_KEYS
                        /\ Raise(Postmaster, "TRAP: FailedAssertion", "assert")
    /\ UNCHANGED <<cmd, enabled, cmdpass, kmgr_dir, kmgr_tmp_dir, shmem, nkeys_tmp,
                   passphrase, boot, rotated, getres>>

\* passlen = kmgr_run_cluster_passphrase_command(...): the command's output,
\* or an ERROR when the command cannot be run, read or exits with non-zero.
InitializeKmgrPassphrase ==
    /\ pc[Postmaster] = "init_pass"
    /\ \/ /\ passphrase' = cmdpass
          /\ pc' = [pc EXCEPT ![Postmaster] = "init_verify"]
          /\ start' = [start EXCEPT !.ranCmd = TRUE]
          /\ UNCHANGED err
       \/ /\ Raise(Postmaster, "passphrase command failed", "command")
          /\ UNCHANGED passphrase
    /\ UNCHANGED <<cmd, enabled, cmdpass, kmgr_dir, kmgr_tmp_dir, shmem, nkeys_tmp,
                   keys_wrap, boot, rotated, getres>>

\* if (!kmgr_verify_passphrase(passphrase, passlen, keys_wrap,
\*                             KmgrShmem->intlKeys, KMGR_MAX_INTERNAL_KEYS))
\*     ereport(ERROR, ...);
\* pg_create_aead_ctx may return NULL, which kmgr_verify_passphrase does not
\* test: kmgr_unwrap_key with a NULL context kills the process or fails.
InitializeKmgrVerify ==
    /\ pc[Postmaster] = "init_verify"
    /\ \/ \E ctx \in kmgr_derive_keys(passphrase, passphrase.len) :
            LET r == kmgr_verify_passphrase(ctx, keys_wrap.keys, shmem.intlKeys,
                                            KMGR_MAX_INTERNAL_KEYS)
            IN  /\ shmem' = [shmem EXCEPT !.intlKeys = r.keys_out]
                /\ IF r.ok
                   THEN /\ pc' = [pc EXCEPT ![Postmaster] = "running"]
                        /\ UNCHANGED <<err, start>>
                   ELSE Raise(Postmaster,
                          "cluster passphrase does not match expected passphrase",
                          "verify")
       \/ /\ \E m \in {"SIGSEGV",
                       "cluster passphrase does not match expected passphrase"} :
               Raise(Postmaster, m, "verify with ctx NULL")
          /\ UNCHANGED shmem
    /\ UNCHANGED <<cmd, enabled, cmdpass, kmgr_dir, kmgr_tmp_dir, nkeys_tmp, keys_wrap,
                   passphrase, boot, rotated, getres>>


(***************************************************************************)
(* pg_rotate_cluster_passphrase, called in a backend of a running server.  *)
(***************************************************************************)
\* if (!key_management_enabled) ereport(ERROR, ...);
\* recoverIncompleteRotation();
RotateEnter(p) ==
    /\ p \in Backends
    /\ pc[p] = "idle"
    /\ pc[Postmaster] = "running"
    /\ IF ~enabled
       THEN Raise(p, "could not rotate cluster passphrase because key management is not supported", "rotate")
       ELSE /\ pc' = [pc EXCEPT ![p] = "rec_stat_tmp"]
            /\ err' = [err EXCEPT ![p] = NoErr]
            /\ UNCHANGED start
    /\ UNCHANGED <<cmd, enabled, cmdpass, kmgr_dir, kmgr_tmp_dir, shmem, nkeys_tmp,
                   keys_wrap, passphrase, boot, rotated, getres>>

\* Nothing stands between the markers: PG_RETURN_BOOL(true).
RotateReturn(p) ==
    /\ p \in Backends
    /\ pc[p] = "rot_body"
    /\ pc' = [pc EXCEPT ![p] = "idle"]
    /\ rotated' = [done |-> TRUE, from |-> passphrase, pass |-> cmdpass,
                   cache |-> shmem.intlKeys]
    /\ UNCHANGED <<cmd, enabled, cmdpass, kmgr_dir, kmgr_tmp_dir, shmem, err, nkeys_tmp,
                   keys_wrap, passphrase, boot, start, getres>>

(***************************************************************************)
(* KmgrGetKey.                                                             *)
(***************************************************************************)
\* The ids callers pass: below, in and above the range of the key ids.
GetIds == (-1) .. KMGR_MAX_INTERNAL_KEYS

\* Assert(id < KMGR_MAX_INTERNAL_KEYS); thekey = NULL; return thekey;
\* What the call returns: "trap" when the assertion fails in a build with
\* assertions, else the NULL thekey was set to.
KmgrGetKey(id, asserts) ==
    IF asserts /\ ~(id < KMGR_MAX_INTERNAL_KEYS)
    THEN [called |-> TRUE, id |-> id, ret |-> "trap", slot |-> 0]
    ELSE [called |-> TRUE, id |-> id, ret |-> "NULL", slot |-> 0]

GetKey(p) ==
    /\ p \in Backends
    /\ pc[p] = "idle"
    /\ pc[Postmaster] = "running"
    /\ \E id \in GetIds, asserts \in BOOLEAN : getres' = KmgrGetKey(id, asserts)
    /\ UNCHANGED <<cmd, enabled, cmdpass, kmgr_dir, kmgr_tmp_dir, shmem, pc, err,
                   nkeys_tmp, keys_wrap, passphrase, boot, start, rotated>>

(***************************************************************************)
(* The environment: the server stops or crashes at any point (the shared   *)
(* memory and every process are gone, the directories stay), and the       *)
(* operator points cluster_passphrase_command at another passphrase.       *)
(***************************************************************************)
Crash ==
    /\ pc[Postmaster] \notin {"initdb", "stopped"}
    /\ pc' = [p \in Procs |-> IF p = Postmaster THEN "stopped" ELSE "idle"]
    /\ shmem' = NoShmem
    /\ err' = [p \in Procs |-> NoErr]
    /\ nkeys_tmp' = [p \in Procs |-> 0]
    /\ keys_wrap' = NoKeysWrap
    /\ passphrase' = NoPassphrase
    /\ getres' = NoGet
    /\ start' = [start EXCEPT !.recCrash =
                     start.tmp /\ pc[Postmaster] \in RecoverySteps]
    /\ UNCHANGED <<cmd, enabled, cmdpass, kmgr_dir, kmgr_tmp_dir, boot, rotated>>

Reconfigure ==
    /\ pc[Postmaster] \in {"stopped", "running"}
    /\ \A b \in Backends : pc[b] = "idle"
    /\ \E pw \in Passphrases \ {cmdpass} : cmdpass' = pw
    /\ UNCHANGED <<cmd, enabled, kmgr_dir, kmgr_tmp_dir, shmem, pc, err, nkeys_tmp,
                   keys_wrap, passphrase, boot, start, rotated, getres>>

Next ==
    \/ BootStrapKmgr
    \/ PostmasterStart
    \/ \E p \in Procs : KmgrShmemInit(p)
    \/ InitializeKmgrEnter
    \/ InitializeKmgrLoad
    \/ InitializeKmgrPassphrase
    \/ InitializeKmgrVerify
    \/ \E p \in Procs : RecoverStatTmp(p)
    \/ \E p \in Procs : RecoverStatDir(p)
    \/ \E p \in Procs : RecoverRename(p)
    \/ \E p \in Procs : RecoverLoadTmp(p)
    \/ \E p \in Procs : RecoverRmtreeDir(p)
    \/ \E p \in Procs : RecoverRmtreeTmp(p)
    \/ \E p \in Backends : RotateEnter(p)
    \/ \E p \in Backends : RotateReturn(p)
    \/ \E p \in Backends : GetKey(p)
    \/ Crash
    \/ Reconfigure

Spec == Init /\ [][Next]_vars

(***************************************************************************)
(* The building of the command line alone, for every template: one step    *)
(* per pass of the loop, and the write of the terminator after it.         *)
(***************************************************************************)
CommandStep ==
    /\ ~cmd.done
    /\ CharAt(cmd.template, cmd.p) # "NUL"
    /\ cmd' = CommandLoopBody(cmd)
    /\ UNCHANGED <<enabled, cmdpass, kmgr_dir, kmgr_tmp_dir, shmem, pc, err,
                   nkeys_tmp, keys_wrap, passphrase, boot, start, rotated, getres>>

\* *dp = '\0';
CommandTerminate ==
    /\ ~cmd.done
    /\ CharAt(cmd.template, cmd.p) = "NUL"
    /\ cmd' = [cmd EXCEPT !.command = Poke(@, cmd.dp, "NUL"), !.done = TRUE]
    /\ UNCHANGED <<enabled, cmdpass, kmgr_dir, kmgr_tmp_dir, shmem, pc, err,
                   nkeys_tmp, keys_wrap, passphrase, boot, start, rotated, getres>>

InitCmd ==
    /\ \E template \in Templates : cmd = CommandStart(template)
    /\ enabled = TRUE
    /\ cmdpass = NoPassphrase
    /\ kmgr_dir = NoDir /\ kmgr_tmp_dir = NoDir
    /\ pc = [p \in Procs |-> IF p = Postmaster THEN "initdb" ELSE "idle"]
    /\ shmem = NoShmem
    /\ err = [p \in Procs |-> NoErr]
    /\ nkeys_tmp = [p \in Procs |-> 0]
    /\ keys_wrap = NoKeysWrap
    /\ passphrase = NoPassphrase
    /\ boot = NoBoot
    /\ start = NoStart
    /\ rotated = NoRotated
    /\ getres = NoGet

NextCmd == CommandStep \/ CommandTerminate

SpecCmd == InitCmd /\ [][NextCmd]_vars


(***************************************************************************)
(* Positions.                                                              *)
(***************************************************************************)
\* The postmaster is past its call of recoverIncompleteRotation, or the call
\* raised.
AfterRecovery ==
    \/ pc[Postmaster] \in {"init_load", "init_pass", "init_verify", "running"}
    \/ pc[Postmaster] = "failed"

\* InitializeKmgr has ended: it returned, or raised.
StartupEnded == pc[Postmaster] \in {"running", "failed"}

StartupSucceeded == enabled /\ pc[Postmaster] = "running"

\* A complete set of key files wrapped under one key encryption key.
IsCompleteKeySet(dir) == \E k \in KEKs : dir = FullDir(k)

\* Backend p is inside pg_rotate_cluster_passphrase.
InRotation(p) == pc[p] # "idle"

(***************************************************************************)
(* C1.  After a rotation was interrupted between two of its file system    *)
(* steps (pg_cryptokeys_tmp is there when the server starts), a run of     *)
(* recoverIncompleteRotation leaves pg_cryptokeys present, pg_cryptokeys_tmp*)
(* absent, and in pg_cryptokeys a complete set of keys all wrapped under    *)
(* one passphrase.  Fails: a key file created and not yet written makes    *)
(* the recovery raise with both directories left in place.                 *)
(***************************************************************************)
C1_RecoveryAfterCrashedRotation ==
    (enabled /\ start.tmp /\ AfterRecovery)
        => /\ kmgr_dir.exists
           /\ ~kmgr_tmp_dir.exists
           /\ IsCompleteKeySet(kmgr_dir)

(***************************************************************************)
(* C2.  After a rotation from the passphrase of the startup to another one *)
(* has returned true, a startup under the new one succeeds and installs    *)
(* the plaintext keys the cache held at the rotation.  Fails: the rotation *)
(* returns true without wrapping or saving anything, and the keys derived  *)
(* at startup do not depend on the passphrase.                             *)
(***************************************************************************)
C2_StartupAfterRotation ==
    (/\ enabled /\ start.afterRot /\ rotated.done /\ rotated.from # rotated.pass
     /\ StartupEnded /\ start.ranCmd /\ passphrase = rotated.pass
     /\ start.errAt \in {"", "verify"})
        => /\ pc[Postmaster] = "running"
           /\ shmem.intlKeys = rotated.cache

(***************************************************************************)
(* C3.  A startup that ends with "cluster passphrase does not match" has   *)
(* written no slot of KmgrShmem->intlKeys.  Fails: kmgr_verify_passphrase  *)
(* is handed KmgrShmem->intlKeys as keys_out and writes each key as it     *)
(* unwraps it.                                                             *)
(***************************************************************************)
C3_NoCacheWriteOnBadPassphrase ==
    (enabled /\ pc[Postmaster] = "failed" /\ start.errAt = "verify")
        => /\ err[Postmaster] = "cluster passphrase does not match expected passphrase"
           /\ shmem.intlKeys = ZeroKeys

(***************************************************************************)
(* C4.  After BootStrapKmgr returned under a passphrase of at least        *)
(* KMGR_MIN_PASSPHRASE_LEN bytes, a startup under the same passphrase      *)
(* succeeds and every slot id holds a plaintext key of                     *)
(* internalKeyLengths[id] bytes.  Fails: no key is generated and no file   *)
(* is saved, so the startup finds no pg_cryptokeys.                        *)
(***************************************************************************)
C4_StartupAfterBootstrap ==
    (/\ enabled /\ boot.done /\ boot.err = NoErr
     /\ boot.pass.len >= KMGR_MIN_PASSPHRASE_LEN /\ cmdpass = boot.pass
     /\ StartupEnded
     /\ start.errAt \notin {"command", "verify with ctx NULL"})
        => /\ pc[Postmaster] = "running"
           /\ \A id \in KeyIds :
                /\ shmem.intlKeys[id].kind = "plain"
                /\ shmem.intlKeys[id].klen = internalKeyLengths(id)

(***************************************************************************)
(* C5.  After BootStrapKmgr has returned, after a startup has succeeded    *)
(* and after a rotation has returned, pg_cryptokeys exists and holds       *)
(* exactly the key files 0000 .. of the KMGR_MAX_INTERNAL_KEYS ids, and    *)
(* pg_cryptokeys_tmp does not exist.  Fails after BootStrapKmgr, which     *)
(* saves nothing.                                                          *)
(***************************************************************************)
C5_StableStateLayout ==
    (\/ pc[Postmaster] = "stopped" /\ boot.done /\ boot.err = NoErr
     \/ StartupSucceeded /\ \A b \in Backends : ~InRotation(b))
        => /\ kmgr_dir.exists
           /\ EntryNames(kmgr_dir) = KeyFileNames(KeyIds)
           /\ \A n \in EntryNames(kmgr_dir) : kmgr_dir.files[n].bytes = "full"
           /\ ~kmgr_tmp_dir.exists

(***************************************************************************)
(* C6.  While the server runs after a completed startup, no step changes   *)
(* KmgrShmem->intlKeys: not a rotation, its recovery, a backend's          *)
(* KmgrShmemInit, or KmgrGetKey.                                           *)
(***************************************************************************)
C6_CacheNeverChangesAfterStartup ==
    [][(pc[Postmaster] = "running" /\ pc'[Postmaster] = "running")
          => shmem'.intlKeys = shmem.intlKeys]_vars

\* A running server with keys installed on which a rotation returned and a
\* key was looked up.
C6_Witness ==
    /\ StartupSucceeded
    /\ \A id \in KeyIds : shmem.intlKeys[id].kind = "plain"
    /\ rotated.done /\ ~start.afterRot
    /\ getres.called

(***************************************************************************)
(* C7.  A startup that finds neither pg_cryptokeys nor pg_cryptokeys_tmp.  *)
(***************************************************************************)
\* InitializeKmgr was entered with the key manager enabled and found
\* neither directory.
StartedWithoutKeystore ==
    /\ enabled
    /\ pc[Postmaster] \notin {"initdb", "stopped", "shmem_init", "init"}
    /\ ~start.dir /\ ~start.tmp

\* C7 as stated: such a startup fails with an error the recovery step
\* raises, having run no passphrase command and written no cache slot.
C7_MissingKeystoreRaisedByRecovery ==
    (StartedWithoutKeystore /\ StartupEnded)
        => /\ pc[Postmaster] = "failed"
           /\ start.errAt = "recover"
           /\ ~start.ranCmd
           /\ shmem.intlKeys = ZeroKeys

\* C7 as the code has it: recoverIncompleteRotation returns without an
\* error, and the startup fails in kmgr_get_cryptokeys(KMGR_DIR) with "could
\* not open directory"; it never gets to the passphrase command, and writes
\* no cache slot.
C7_MissingKeystoreRaisedByLoad ==
    StartedWithoutKeystore
        => /\ pc[Postmaster] \in {"rec_stat_tmp", "init_load", "failed"}
           /\ pc[Postmaster] = "failed"
                => /\ start.errAt = "load"
                   /\ err[Postmaster] = "could not open directory"
           /\ ~start.ranCmd
           /\ passphrase = NoPassphrase
           /\ shmem.intlKeys = ZeroKeys

C7_Witness ==
    /\ StartedWithoutKeystore
    /\ pc[Postmaster] = "failed"
    /\ start.errAt = "load"

(***************************************************************************)
(* C8.  Rotations exclude each other: no two backends are inside           *)
(* pg_rotate_cluster_passphrase (its recoverIncompleteRotation included)   *)
(* at once.  Fails: the function takes no lock.                            *)
(***************************************************************************)
C8_RotationsExclusive ==
    \A p \in Backends, q \in Backends :
        (p # q /\ InRotation(p)) => ~InRotation(q)

(***************************************************************************)
(* C9.  After a successful startup KmgrGetKey(id) returns the key of slot  *)
(* id for an id in range, and rejects an id out of range.  Fails: it       *)
(* returns NULL for every id, and the assertion lets a negative id pass.   *)
(***************************************************************************)
C9_GetKeyReturnsSlot ==
    (StartupSucceeded /\ getres.called)
        => IF getres.id \in KeyIds
           THEN getres.ret = "slot" /\ getres.slot = getres.id
           ELSE getres.ret = "trap"

(***************************************************************************)
(* C10.  A startup whose passphrase is shorter than                        *)
(* KMGR_MIN_PASSPHRASE_LEN fails with the too-short error and writes no    *)
(* cache slot.  Fails: InitializeKmgr does not test passlen; the startup   *)
(* ends as the verification of the keys ends.                              *)
(***************************************************************************)
C10_ShortPassphraseAtStartup ==
    (/\ enabled /\ StartupEnded /\ start.ranCmd
     /\ passphrase.len < KMGR_MIN_PASSPHRASE_LEN
     /\ start.errAt # "verify with ctx NULL")
        => /\ pc[Postmaster] = "failed"
           /\ err[Postmaster] = "passphrase must be more than KMGR_MIN_PASSPHRASE_LEN bytes"
           /\ shmem.intlKeys = ZeroKeys

(***************************************************************************)
(* C11.  BootStrapKmgr with a passphrase shorter than                      *)
(* KMGR_MIN_PASSPHRASE_LEN raises "passphrase must be more than %d bytes"  *)
(* before it generates or wraps a key, and neither pg_cryptokeys nor       *)
(* pg_cryptokeys_tmp is created.                                           *)
(***************************************************************************)
C11_ShortPassphraseAtBootstrap ==
    (/\ boot.done /\ boot.err # "passphrase command failed"
     /\ boot.pass.len < KMGR_MIN_PASSPHRASE_LEN)
        => /\ boot.err = "passphrase must be more than KMGR_MIN_PASSPHRASE_LEN bytes"
           /\ ~boot.gen
           /\ kmgr_dir = NoDir
           /\ kmgr_tmp_dir = NoDir

C11_Witness ==
    /\ boot.done
    /\ boot.pass.len = KMGR_MIN_PASSPHRASE_LEN - 1
    /\ boot.err = "passphrase must be more than KMGR_MIN_PASSPHRASE_LEN bytes"

(***************************************************************************)
(* C12.  With key_management_enabled false: KmgrShmemSize is 0,            *)
(* KmgrShmemInit allocates nothing, InitializeKmgr returns at once (no     *)
(* recovery, no directory read, no passphrase command, no cache write),    *)
(* and pg_rotate_cluster_passphrase raises its "not supported" error       *)
(* before recoverIncompleteRotation; no step changes either directory.     *)
(***************************************************************************)
C12_DisabledIsInert ==
    /\ [](~enabled =>
            /\ KmgrShmemSize(enabled) = 0
            /\ shmem = NoShmem
            /\ pc[Postmaster] \in {"initdb", "stopped", "shmem_init", "init", "running"}
            /\ ~start.dir /\ ~start.tmp /\ ~start.ranCmd /\ start.errAt = ""
            /\ keys_wrap = NoKeysWrap
            /\ passphrase = NoPassphrase
            /\ ~rotated.done
            /\ \A b \in Backends :
                  /\ pc[b] = "idle"
                  /\ err[b] \in {NoErr, "could not rotate cluster passphrase because key management is not supported"})
    /\ [][~enabled => /\ kmgr_dir' = kmgr_dir
                      /\ kmgr_tmp_dir' = kmgr_tmp_dir]_vars

\* A disabled server on a data directory an interrupted rotation left, up
\* and with a rotation call refused.
C12_Witness ==
    /\ ~enabled
    /\ pc[Postmaster] = "running"
    /\ kmgr_tmp_dir.exists
    /\ \E b \in Backends :
          err[b] = "could not rotate cluster passphrase because key management is not supported"

(***************************************************************************)
(* C13.  kmgr_get_cryptokeys takes a directory entry for a key file        *)
(* exactly when its name is four characters, each of 0-9 or A-F.  Every    *)
(* other entry is passed over: it raises no error, is not read, is not     *)
(* counted and changes no returned key; a startup with such an entry in    *)
(* pg_cryptokeys succeeds.                                                 *)
(***************************************************************************)
C13_OnlyFourUpperHexNamesAreKeyFiles ==
    LET Digits == {"0", "1", "2", "3", "4", "5", "6", "7", "8", "9",
                   "A", "B", "C", "D", "E", "F"}
        Matching == {n \in EntryNames(kmgr_dir) :
                        Len(n) = 4 /\ \A i \in 1 .. 4 : n[i] \in Digits}
    IN  /\ (enabled /\ pc[Postmaster] \in {"init_pass", "init_verify", "running"})
            => /\ keys_wrap.nkeys = Cardinality(Matching)
               /\ \A id \in KeyIds :
                     keys_wrap.keys[id] =
                        IF CryptoKeyFilePath(id) \in Matching
                        THEN kmgr_dir.files[CryptoKeyFilePath(id)].key
                        ELSE ZeroKey
        /\ (enabled /\ pc[Postmaster] = "failed" /\ start.errAt = "load")
            => \/ ~kmgr_dir.exists
               \/ \E n \in Matching :
                     \/ n \notin KeyFileNames(KeyIds)
                     \/ kmgr_dir.files[n].bytes # "full"

\* A startup that succeeded with the stray file xyz in pg_cryptokeys.
C13_Witness ==
    /\ StartupSucceeded
    /\ <<"x", "y", "z">> \in EntryNames(kmgr_dir)
    /\ keys_wrap.nkeys = KMGR_MAX_INTERNAL_KEYS

(***************************************************************************)
(* C14.  recoverIncompleteRotation with both directories present: when     *)
(* pg_cryptokeys_tmp holds KMGR_MAX_INTERNAL_KEYS key files, pg_cryptokeys *)
(* is removed and pg_cryptokeys_tmp renamed to it, so that pg_cryptokeys   *)
(* holds the files pg_cryptokeys_tmp held; otherwise pg_cryptokeys_tmp is  *)
(* removed and pg_cryptokeys is left as it was.  Fails: the load of        *)
(* pg_cryptokeys_tmp raises on a key file that is not sizeof(CryptoKey)    *)
(* bytes, and nothing is removed.                                          *)
(***************************************************************************)
C14_RecoveryWithBothDirectories ==
    LET NumKeyFiles == Cardinality({n \in EntryNames(start.tmp0) : IsKeyFileName(n)})
    IN  (enabled /\ start.dir /\ start.tmp /\ AfterRecovery)
            => /\ ~kmgr_tmp_dir.exists
               /\ kmgr_dir = IF NumKeyFiles = KMGR_MAX_INTERNAL_KEYS
                             THEN start.tmp0 ELSE start.dir0

(***************************************************************************)
(* C15.  The crash point of a rotation decides the keys that survive it:   *)
(* when pg_cryptokeys_tmp was written completely the recovery keeps the    *)
(* newly wrapped keys, else the old ones; the startup then succeeds only   *)
(* under the passphrase of the surviving keys (which is not shorter than   *)
(* KMGR_MIN_PASSPHRASE_LEN), and installs the keys of the cluster.  Fails: *)
(* the recovery raises on a key file left empty by the crash, and a        *)
(* startup can succeed under any passphrase.                               *)
(***************************************************************************)
C15_SurvivorByCrashPoint ==
    (enabled /\ start.tmp /\ AfterRecovery)
        => /\ start.errAt # "recover"
           /\ kmgr_dir = IF IsCompleteKeySet(start.tmp0)
                         THEN start.tmp0 ELSE start.dir0
           /\ StartupSucceeded
                => /\ passphrase.len >= KMGR_MIN_PASSPHRASE_LEN
                   /\ \A id \in KeyIds : shmem.intlKeys[id] = ClusterKey(id)

(***************************************************************************)
(* C16.  With both directories present, a key file of pg_cryptokeys_tmp    *)
(* that is not sizeof(CryptoKey) bytes counts as not valid: the recovery   *)
(* removes pg_cryptokeys_tmp, keeps pg_cryptokeys and raises no error.     *)
(* Fails: read_one_keyfile raises "could not read file" on it.             *)
(***************************************************************************)
C16_ShortTmpFileIsDropped ==
    (/\ enabled /\ start.dir /\ start.tmp /\ AfterRecovery
     /\ \E n \in EntryNames(start.tmp0) : start.tmp0.files[n].bytes = "short")
        => /\ start.errAt # "recover"
           /\ ~kmgr_tmp_dir.exists
           /\ kmgr_dir = start.dir0

(***************************************************************************)
(* C17.  recoverIncompleteRotation is idempotent.  Every run that returns  *)
(* leaves pg_cryptokeys_tmp absent; and a run that finds pg_cryptokeys_tmp *)
(* absent (the normal state, and the state any earlier run that returned   *)
(* has left) returns from its first test having changed neither directory. *)
(***************************************************************************)
C17_RecoveryIdempotent ==
    [][\A p \in Procs :
         /\ (/\ pc[p] \in {"rec_stat_tmp", "rec_stat_dir", "rec_rename_only",
                            "rec_load_tmp", "rec_rmtree_dir", "rec_rename",
                            "rec_rmtree_tmp"}
             /\ pc'[p] \in {"init_load", "rot_body"})
                => ~kmgr_tmp_dir'.exists
         /\ (/\ pc[p] = "rec_stat_tmp" /\ ~kmgr_tmp_dir.exists
             /\ pc'[p] # pc[p] /\ pc'[Postmaster] # "stopped")
                => /\ pc'[p] \in {"init_load", "rot_body"}
                   /\ kmgr_dir' = kmgr_dir
                   /\ kmgr_tmp_dir' = kmgr_tmp_dir]_vars

\* The recovery of a startup had a temporary directory to deal with and
\* returned; the recovery of a later rotation call has returned too.
C17_Witness ==
    /\ StartupSucceeded
    /\ start.tmp
    /\ kmgr_dir \in {start.dir0, start.tmp0}
    /\ \E b \in Backends : pc[b] = "rot_body"

(***************************************************************************)
(* C18.  kmgr_get_cryptokeys raises, and hands no keys to its caller, when *)
(* the directory holds a key file name whose identifier is                 *)
(* KMGR_MAX_INTERNAL_KEYS or more, more than KMGR_MAX_INTERNAL_KEYS key    *)
(* file names, or a key file shorter than sizeof(CryptoKey).  When it      *)
(* returns, the count is at most KMGR_MAX_INTERNAL_KEYS and is the number  *)
(* of key file names, and the key of file <id> is at index id.  Stated of  *)
(* the load of pg_cryptokeys in InitializeKmgr.                            *)
(***************************************************************************)
C18_LoadRaisesOnCorruptDirectory ==
    LET Matching == {n \in EntryNames(kmgr_dir) : IsKeyFileName(n)}
        Bad == \/ \E n \in Matching : strtoul16(n, 0) >= KMGR_MAX_INTERNAL_KEYS
               \/ \E n \in Matching : kmgr_dir.files[n].bytes = "short"
               \/ Cardinality(Matching) > KMGR_MAX_INTERNAL_KEYS
        LoadEnded == \/ pc[Postmaster] \in {"init_pass", "init_verify", "running"}
                     \/ pc[Postmaster] = "failed" /\ start.errAt # "recover"
    IN  (enabled /\ LoadEnded /\ kmgr_dir.exists)
            => IF Bad
               THEN /\ pc[Postmaster] = "failed"
                    /\ start.errAt = "load"
                    /\ err[Postmaster] \in {"invalid cryptographic key identifier",
                                            "too many cryptographic kes",
                                            "could not read file: short read"}
                    /\ keys_wrap = NoKeysWrap
               ELSE /\ start.errAt # "load"
                    /\ keys_wrap.nkeys <= KMGR_MAX_INTERNAL_KEYS
                    /\ keys_wrap.nkeys = Cardinality(Matching)
                    /\ \A id \in KeyIds :
                          CryptoKeyFilePath(id) \in Matching
                             => keys_wrap.keys[id] = kmgr_dir.files[CryptoKeyFilePath(id)].key

\* A startup that ended in the load of a pg_cryptokeys with a key file cut
\* short.
C18_Witness ==
    /\ enabled
    /\ pc[Postmaster] = "failed"
    /\ start.errAt = "load"
    /\ err[Postmaster] = "could not read file: short read"
    /\ \E n \in EntryNames(kmgr_dir) : kmgr_dir.files[n].bytes = "short"

(***************************************************************************)
(* C19.  The command line built from a template: every %p is replaced by   *)
(* the whole of KMGR_PROMPT_MSG with the rest of the template right after  *)
(* it, %% gives one %, any other %X gives X, every other character is      *)
(* copied.  Stated of the templates whose expansion fits the buffer.       *)
(* Fails: the last byte of the prompt is overwritten with the terminator,  *)
(* which ends the command line there; and %X gives %X.                     *)
(***************************************************************************)
C19_CommandFromTemplate ==
    LET RECURSIVE Expand(_)
        Expand(t) ==
            IF t = <<>> THEN <<>>
            ELSE IF Head(t) = "%" /\ Len(t) >= 2
            THEN (IF t[2] = "p" THEN KMGR_PROMPT_MSG ELSE <<t[2]>>)
                     \o Expand(SubSeq(t, 3, Len(t)))
            ELSE <<Head(t)>> \o Expand(Tail(t))
    IN  (cmd.done /\ Len(Expand(cmd.template)) <= MAXPGPATH - 1)
            => CStringFrom(cmd.command, 0) = Expand(cmd.template)

(***************************************************************************)
(* C20.  Building the command line never writes past the buffer: the       *)
(* write position stays within command[0 .. MAXPGPATH - 1] and no byte     *)
(* outside it is written, whatever the template.  Fails: the prompt is     *)
(* copied and dp advanced without a test against endp.                     *)
(***************************************************************************)
C20_CommandStaysInBuffer ==
    cmd # NoCmd
        => /\ cmd.dp <= endp
           /\ DOMAIN cmd.command \subseteq 0 .. (MAXPGPATH - 1)

(***************************************************************************)
(* C21.  When BootStrapKmgr or InitializeKmgr is left, by a return or by   *)
(* an ERROR, the local buffer that held the passphrase has been zeroed.    *)
(* Fails: no exit of either function writes the buffer; it is left with    *)
(* the passphrase the command printed.                                     *)
(***************************************************************************)
C21_PassphraseZeroedOnExit ==
    /\ boot.done => boot.passbuf = NoPassphrase
    /\ (enabled /\ StartupEnded /\ start.ranCmd) => passphrase = NoPassphrase

(***************************************************************************)
(* C22.  When pg_create_aead_ctx fails, the operation fails with "could    *)
(* not initialize encryption context" before a key is wrapped or           *)
(* unwrapped: BootStrapKmgr has generated no key and written no file, and  *)
(* the passphrase verification of a startup has called no unwrap and       *)
(* written no cache slot.  Fails at startup: kmgr_verify_passphrase does   *)
(* not test the context and calls kmgr_unwrap_key with NULL.               *)
(***************************************************************************)
C22_ContextFailureRaisesCryptoInit ==
    /\ (boot.done /\ boot.err = "could not initialize encryption context")
            => ~boot.gen /\ kmgr_dir = NoDir /\ kmgr_tmp_dir = NoDir
    /\ (enabled /\ pc[Postmaster] = "failed"
           /\ start.errAt = "verify with ctx NULL")
            => /\ err[Postmaster] = "could not initialize encryption context"
               /\ shmem.intlKeys = ZeroKeys

(***************************************************************************)
(* C23.  recoverIncompleteRotation is safe against a crash of its own.     *)
(* At every point inside a recovery that found a temporary directory       *)
(* (part-way through either removal, between removal and rename), one of   *)
(* the two directories holds a complete set of wrapped keys; and the       *)
(* recovery of the run after a crash at such a point ends with             *)
(* pg_cryptokeys holding a complete set and pg_cryptokeys_tmp absent.      *)
(* Fails: a crash before the load of a pg_cryptokeys_tmp with a key file   *)
(* left empty leaves that file, and the next recovery raises on it.        *)
(***************************************************************************)
C23_RecoveryIsCrashSafe ==
    /\ (enabled /\ start.tmp /\ pc[Postmaster] \in RecoverySteps)
            => IsCompleteKeySet(kmgr_dir) \/ IsCompleteKeySet(kmgr_tmp_dir)
    /\ (enabled /\ start.recCrash /\ AfterRecovery)
            => /\ IsCompleteKeySet(kmgr_dir)
               /\ ~kmgr_tmp_dir.exists

=============================================================================
